---- MODULE Spec2Model ----
(***************************************************************************)
(* A model of the `board` crate of chesster: Square, BitBoard, Piece,      *)
(* Board, the square iterators and the FEN piece-placement codec.          *)
(*                                                                         *)
(* A BitBoard (a u64 mask) is modelled as the set of square indices whose  *)
(* bit is set: bit i set <=> i is in the set.  XOR with one bit is the     *)
(* symmetric difference with a singleton, & is intersection, | is union.   *)
(* Option<T> is modelled as a sequence of length at most one: None is <<>> *)
(* and Some(x) is <<x>>.  Text is a sequence of ASCII byte values.         *)
(***************************************************************************)
EXTENDS Integers, Sequences, FiniteSets, TLC

VARIABLES
    pc,         \* position of the program
    board,      \* the Board being built, mutated or read
    \* ---- Board API: history of the toggle_square calls made so far
    nToggles,   \* number of toggle_square calls made
    lastOp,     \* Some(<<piece, square>>) of the last call, None at first
    before,     \* the board as it was before the last call
    prevOp,     \* Some(<<piece, square>>) of the call before the last one
    before2,    \* the board as it was before the call before the last one
    docOK,      \* every call so far respected the documented contract
    exactOK,    \* every call so far hit an empty square or exactly that piece
    \* ---- square iterator (Iter / IntoIter)
    itKind,     \* "none", "Iter" (borrowing) or "IntoIter" (consuming)
    pos,        \* the iterator's pos field
    yielded,    \* the items next() has returned so far, in order
    lastRet,    \* what the last next() returned: Some(item) or None
    nNext,      \* number of next() calls made on the iterator
    \* ---- FEN codec
    src,        \* the text handed to the first parse_board
    input,      \* the bytes of the FEN being parsed
    it,         \* index of the next byte the byte iterator will return
    rank,       \* parse_board's rank counter
    file,       \* parse_board's file counter
    result,     \* "Running", "Ok" or the ParseError returned
    exit,       \* how the parsing loop was left without an error: "none" while
                \* it runs, "end" (no byte left) or "break" (the break 'parsing)
    round,      \* 1: parsing src; 2: parsing to_fen of the first board
    board1,     \* the board the first parse returned
    fen1,       \* to_fen of board1
    fen2,       \* to_fen of the board the second parse returned
    \* ---- a single call of a function and the value it returned
    call,       \* Some([fn |-> name, args |-> arguments]) of the call, or None
    ret         \* Some(value) once the call has returned, None before

vars == <<pc, board, nToggles, lastOp, before, prevOp, before2, docOK, exactOK,
          itKind, pos, yielded, lastRet, nNext,
          src, input, it, rank, file, result, exit, round, board1, fen1, fen2,
          call, ret>>

apiVars == <<nToggles, lastOp, before, prevOp, before2, docOK, exactOK>>
iterVars == <<itKind, pos, yielded, lastRet, nNext>>
fenVars == <<src, input, it, rank, file, result, exit, round, board1, fen1, fen2>>
callVars == <<call, ret>>

-----------------------------------------------------------------------------
(* Bounds of the model *)

\* toggle_square calls made in one behaviour of the Board API
MaxToggles == 3
\* rank-groups of a generated input that differ from the blank group "8"
MaxOdd == 1
\* rank-groups of the longest generated input: two more than a board has ranks
MaxGroups == 10
\* largest argument, short of u8::MAX, of the Square::new calls tried
MaxCoord == 10

-----------------------------------------------------------------------------
(* Option *)

None == <<>>
Some(x) == <<x>>

\* the outcome of a call that can fail fatally (assert!, panic!, unwrap)
Panics == [panic |-> TRUE, val |-> None]
Returns(v) == [panic |-> FALSE, val |-> Some(v)]

\* u8 arithmetic wraps at 2^8
U8(x) == x % 256

-----------------------------------------------------------------------------
(* square.rs *)

\* core::mem::variant_count::<Square>()
SquareCount == 64
Squares == 0 .. (SquareCount - 1)

\* Square::try_from_raw
try_from_raw(raw) == IF raw < SquareCount THEN Some(raw) ELSE None

\* Square::from_raw: assert!(raw < variant_count::<Self>() as u8)
from_raw(raw) == IF raw < SquareCount THEN Returns(raw) ELSE Panics

\* Square::new with a bug: ranks and files are counted from 0
Square_new_ZeroBased(r, f) ==
    IF ~(r <= 7) THEN Panics
    ELSE IF ~(f <= 7) THEN Panics
    ELSE from_raw(U8(U8(r * 8) + f))

\* Square::new(rank: r, file: f): the two assert!s, then
\* from_raw((rank - 1) * 8 + (file - 1))
Square_new(r, f) ==
    IF ~(1 <= r /\ r <= 8) THEN Panics
    ELSE IF ~(1 <= f /\ f <= 8) THEN Panics
    ELSE from_raw(U8(U8(U8(r - 1) * 8) + U8(f - 1)))

\* Square::bit: 1 << raw, the mask with the one bit `square`
bit(square) == {square}

-----------------------------------------------------------------------------
(* bitboard.rs *)

\* BitBoard::EMPTY
EMPTY == {}

\* BitBoard::is_on
is_on(bb, square) == (bb \cap bit(square)) # {}

\* BitBoard::toggle with a bug: sets the bit instead of flipping it
toggle_Or(bb, square) == bb \cup bit(square)

\* BitBoard::toggle: self.0 ^= square.bit()
toggle(bb, square) == (bb \ bit(square)) \cup (bit(square) \ bb)

\* impl BitOr for BitBoard
bitor(a, b) == a \cup b

\* impl BitAnd for BitBoard
bitand(a, b) == a \cap b

-----------------------------------------------------------------------------
(* piece.rs *)

White == 0
Black == 1
ColorCOUNT == 2
ColorALL == <<White, Black>>
Colors == 0 .. (ColorCOUNT - 1)

Pawn == 0
Knight == 1
Bishop == 2
Rook == 3
Queen == 4
King == 5
KindCOUNT == 6
KindALL == <<Pawn, Knight, Bishop, Rook, Queen, King>>
Kinds == 0 .. (KindCOUNT - 1)

\* #[bitfield(u8)] Piece: color in bit 0, kind in bits 1..7
new_with(color, kind) == color + 2 * kind

\* Piece::color with a bug: the bit is read inverted
color_Inverted(piece) == 1 - (piece % 2)

\* Piece::color
color(piece) == piece % 2

\* Piece::kind
kind(piece) == piece \div 2

Pieces == {new_with(c, k) : c \in Colors, k \in Kinds}

\* Piece::is_white
is_white(piece) == color(piece) = White

\* const PIECES: ['p', 'n', 'b', 'r', 'q', 'k'] as bytes
PIECES == <<112, 110, 98, 114, 113, 107>>

\* char::to_ascii_uppercase
to_ascii_uppercase(c) == IF c >= 97 /\ c <= 122 THEN c - 32 ELSE c

\* Piece::as_char with a bug: the case is never raised
as_char_Lower(piece) == PIECES[kind(piece) + 1]

\* Piece::as_char
as_char(piece) ==
    LET c == PIECES[kind(piece) + 1]
    IN  IF is_white(piece) THEN to_ascii_uppercase(c) ELSE c

-----------------------------------------------------------------------------
(* lib.rs: Board *)

\* Board::empty
empty ==
    [pieces |-> [k \in Kinds |-> EMPTY], colors |-> [c \in Colors |-> EMPTY]]

\* Board::pieces / Board::colors
pieces(b, k) == b.pieces[k]
colors(b, c) == b.colors[c]

\* Board::whites / Board::blacks
whites(b) == colors(b, White)
blacks(b) == colors(b, Black)

\* Board::occupied
occupied(b) == bitor(blacks(b), whites(b))

\* Board::kind_on: PieceKind::ALL.into_iter().find(..), from index i on
RECURSIVE kind_find(_, _, _)
kind_find(b, square, i) ==
    IF i > Len(KindALL) THEN None
    ELSE IF is_on(pieces(b, KindALL[i]), square) THEN Some(KindALL[i])
    ELSE kind_find(b, square, i + 1)

\* Board::kind_on
kind_on(b, square) == kind_find(b, square, 1)

\* Board::color_of: Color::ALL.into_iter().find(..), from index i on
RECURSIVE color_find(_, _, _)
color_find(b, square, i) ==
    IF i > Len(ColorALL) THEN None
    ELSE IF is_on(colors(b, ColorALL[i]), square) THEN Some(ColorALL[i])
    ELSE color_find(b, square, i + 1)

\* Board::color_of
color_of(b, square) == color_find(b, square, 1)

\* Board::piece_on with a bug: the white-membership test is inverted
piece_on_Inverted(b, square) ==
    LET k == kind_on(b, square)
        c == IF is_on(whites(b), square) THEN Black ELSE White
    IN  IF k = None THEN None ELSE Some(new_with(c, k[1]))

\* Board::piece_on
piece_on(b, square) ==
    LET k == kind_on(b, square)
        c == IF is_on(whites(b), square) THEN White ELSE Black
    IN  IF k = None THEN None ELSE Some(new_with(c, k[1]))

\* Board::toggle_square with a bug: the colour BitBoard is left alone
toggle_square_KindOnly(b, piece, square) ==
    [b EXCEPT !.pieces[kind(piece)] = toggle(@, square)]

\* Board::toggle_square with a bug: the piece is placed, the square being
\* cleared of every other kind and of the other color first
toggle_square_Place(b, piece, square) ==
    [pieces |-> [k \in Kinds |->
                    IF k = kind(piece) THEN toggle(pieces(b, k), square)
                    ELSE pieces(b, k) \ bit(square)],
     colors |-> [c \in Colors |->
                    IF c = color(piece) THEN toggle(colors(b, c), square)
                    ELSE colors(b, c) \ bit(square)]]

\* Board::toggle_square
toggle_square(b, piece, square) ==
    [b EXCEPT !.pieces[kind(piece)] = toggle(@, square),
              !.colors[color(piece)] = toggle(@, square)]

-----------------------------------------------------------------------------
(* iter.rs: Iter (over &Board) and IntoIter (over Board) *)

\* Iter::size_hint, which ExactSizeIterator::len returns
Iter_size_hint(p) == SquareCount - p

\* Iter::next with a bug: the iterator ends one square early
Iter_next_Short(b, p) ==
    IF try_from_raw(p + 1) # None
    THEN [ret |-> Some(piece_on(b, try_from_raw(p)[1])), pos |-> p + 1]
    ELSE [ret |-> None, pos |-> p]

\* Iter::next: what it returns and the pos it leaves
Iter_next(b, p) ==
    IF try_from_raw(p) # None
    THEN [ret |-> Some(piece_on(b, try_from_raw(p)[1])), pos |-> p + 1]
    ELSE [ret |-> None, pos |-> p]

\* IntoIter::size_hint
IntoIter_size_hint(p) == SquareCount - p

\* IntoIter::next
IntoIter_next(b, p) ==
    IF try_from_raw(p) # None
    THEN [ret |-> Some(piece_on(b, try_from_raw(p)[1])), pos |-> p + 1]
    ELSE [ret |-> None, pos |-> p]

\* iter.len() of whichever iterator is alive
IterLen == IF itKind = "IntoIter" THEN IntoIter_size_hint(pos) ELSE Iter_size_hint(pos)

-----------------------------------------------------------------------------
(* fen.rs: Board::to_fen *)

\* char::from_digit(count, 10) with a bug: the digit is one too small
from_digit_OffByOne(n) == IF n < 10 THEN Some(47 + n) ELSE None

\* char::from_digit(count, 10)
from_digit(n) == IF n < 10 THEN Some(48 + n) ELSE None

\* EmptyCounter::push_if_needed with a bug: the count is not reset
push_if_needed_Keep(st) ==
    IF st.count > 0
    THEN IF from_digit(st.count) = None
         THEN [st EXCEPT !.panic = TRUE]
         ELSE [st EXCEPT !.fen = Append(@, from_digit(st.count)[1])]
    ELSE st

\* EmptyCounter::push_if_needed; unwrap() of None panics
push_if_needed(st) ==
    IF st.count > 0
    THEN IF from_digit(st.count) = None
         THEN [st EXCEPT !.panic = TRUE]
         ELSE [st EXCEPT !.fen = Append(@, from_digit(st.count)[1]), !.count = 0]
    ELSE st

\* the body of `for piece in self.iter()` for one item
to_fen_body(st0, item) ==
    LET st1 == [st0 EXCEPT !.file = @ + 1]
        st2 == IF item # None
               THEN [push_if_needed(st1) EXCEPT !.fen = Append(@, as_char(item[1]))]
               ELSE [st1 EXCEPT !.count = @ + 1]
    IN  IF st2.file = 8
        THEN LET st3 == [push_if_needed(st2) EXCEPT !.file = 0, !.rank = @ + 1]
             IN  IF st3.rank < 8 THEN [st3 EXCEPT !.fen = Append(@, 47)] ELSE st3
        ELSE st2

\* the loop over self.iter(), from iterator position p on
RECURSIVE to_fen_loop(_, _, _)
to_fen_loop(b, p, st) ==
    LET nx == Iter_next(b, p)
    IN  IF st.panic \/ nx.ret = None THEN st
        ELSE to_fen_loop(b, nx.pos, to_fen_body(st, nx.ret[1]))

\* Board::to_fen
to_fen(b) ==
    to_fen_loop(b, 0, [fen |-> <<>>, file |-> 0, rank |-> 0, count |-> 0, panic |-> FALSE])

-----------------------------------------------------------------------------
(* The Board API: a caller toggling squares of an empty board and iterating *)

\* the pieces and the squares the modelled caller toggles
TPieces == {new_with(White, Pawn), new_with(Black, Pawn),
            new_with(White, Knight), new_with(Black, King)}
TSquares == {0, SquareCount - 1}

KindsAt(b, square) == {k \in Kinds : is_on(pieces(b, k), square)}
ColorsAt(b, square) == {c \in Colors : is_on(colors(b, c), square)}

\* the contract as documented: the square is not occupied by a different kind
DocContract(b, piece, square) == KindsAt(b, square) \subseteq {kind(piece)}

\* the square is in no BitBoard at all, or holds exactly this piece
ExactContract(b, piece, square) ==
    \/ KindsAt(b, square) = {} /\ ColorsAt(b, square) = {}
    \/ KindsAt(b, square) = {kind(piece)} /\ ColorsAt(b, square) = {color(piece)}

FenIdle ==
    /\ src = <<>> /\ input = <<>> /\ it = 1 /\ rank = 0 /\ file = 0
    /\ result = "Running" /\ exit = "none" /\ round = 0
    /\ board1 = empty /\ fen1 = <<>> /\ fen2 = <<>>

IterIdle ==
    /\ itKind = "none" /\ pos = 0 /\ yielded = <<>> /\ lastRet = None /\ nNext = 0

CallIdle == call = None /\ ret = None

ApiIdle ==
    /\ nToggles = 0 /\ lastOp = None /\ before = empty
    /\ prevOp = None /\ before2 = empty /\ docOK = TRUE /\ exactOK = TRUE

\* let mut board = Board::empty();
Init ==
    /\ pc = "api"
    /\ board = empty
    /\ ApiIdle /\ IterIdle /\ FenIdle /\ CallIdle

\* board.toggle_square(piece, square)
ToggleSquare(piece, square) ==
    /\ pc = "api" /\ itKind = "none"
    /\ nToggles < MaxToggles
    /\ board' = toggle_square(board, piece, square)
    /\ nToggles' = nToggles + 1
    /\ lastOp' = Some(<<piece, square>>)
    /\ before' = board
    /\ prevOp' = lastOp
    /\ before2' = before
    /\ docOK' = (docOK /\ DocContract(board, piece, square))
    /\ exactOK' = (exactOK /\ ExactContract(board, piece, square))
    /\ call' = None /\ ret' = None
    /\ UNCHANGED <<pc, iterVars, fenVars>>

Toggle == \E piece \in TPieces, square \in TSquares : ToggleSquare(piece, square)

\* board.iter() / (&board).into_iter()
IterNew ==
    /\ pc = "api" /\ itKind = "none"
    /\ itKind' = "Iter"
    /\ pos' = 0 /\ yielded' = <<>> /\ lastRet' = None /\ nNext' = 0
    /\ UNCHANGED <<pc, board, apiVars, fenVars, callVars>>

\* board.into_iter(): the board moves into the iterator
IntoIterNew ==
    /\ pc = "api" /\ itKind = "none"
    /\ itKind' = "IntoIter"
    /\ pos' = 0 /\ yielded' = <<>> /\ lastRet' = None /\ nNext' = 0
    /\ UNCHANGED <<pc, board, apiVars, fenVars, callVars>>

\* iter.next() on the borrowing iterator; one call past the end is modelled
IterNext ==
    /\ pc = "api" /\ itKind = "Iter"
    /\ nNext <= SquareCount
    /\ nNext' = nNext + 1
    /\ lastRet' = Iter_next(board, pos).ret
    /\ yielded' = IF Iter_next(board, pos).ret # None
                  THEN Append(yielded, Iter_next(board, pos).ret[1])
                  ELSE yielded
    /\ pos' = Iter_next(board, pos).pos
    /\ UNCHANGED <<pc, board, itKind, apiVars, fenVars, callVars>>

\* iter.next() on the consuming iterator
IntoIterNext ==
    /\ pc = "api" /\ itKind = "IntoIter"
    /\ nNext <= SquareCount
    /\ nNext' = nNext + 1
    /\ lastRet' = IntoIter_next(board, pos).ret
    /\ yielded' = IF IntoIter_next(board, pos).ret # None
                  THEN Append(yielded, IntoIter_next(board, pos).ret[1])
                  ELSE yielded
    /\ pos' = IntoIter_next(board, pos).pos
    /\ UNCHANGED <<pc, board, itKind, apiVars, fenVars, callVars>>

\* the borrowing iterator is dropped: the board can be toggled again
IterDrop ==
    /\ pc = "api" /\ itKind = "Iter"
    /\ itKind' = "none"
    /\ pos' = 0 /\ yielded' = <<>> /\ lastRet' = None /\ nNext' = 0
    /\ UNCHANGED <<pc, board, apiVars, fenVars, callVars>>

\* let fen = board.to_fen(): the last thing the caller does
ToFen ==
    /\ pc = "api" /\ itKind = "none"
    /\ call' = Some([fn |-> "Board::to_fen", args |-> <<>>])
    /\ ret' = Some(to_fen(board))
    /\ pc' = "returned"
    /\ UNCHANGED <<board, apiVars, iterVars, fenVars>>

Next ==
    \/ Toggle \/ IterNew \/ IntoIterNew \/ IterNext \/ IntoIterNext \/ IterDrop
    \/ ToFen

Spec == Init /\ [][Next]_vars

-----------------------------------------------------------------------------
(* fen.rs: FEN::parse_board *)

\* the ASCII value of a character, for writing byte strings
Ascii ==
    ("p" :> 112) @@ ("n" :> 110) @@ ("b" :> 98) @@ ("r" :> 114) @@
    ("q" :> 113) @@ ("k" :> 107) @@ ("P" :> 80) @@ ("N" :> 78) @@
    ("B" :> 66) @@ ("R" :> 82) @@ ("Q" :> 81) @@ ("K" :> 75) @@
    ("/" :> 47) @@ ("0" :> 48) @@ ("1" :> 49) @@ ("2" :> 50) @@
    ("3" :> 51) @@ ("4" :> 52) @@ ("5" :> 53) @@ ("6" :> 54) @@
    ("7" :> 55) @@ ("8" :> 56) @@ ("9" :> 57) @@ (" " :> 32) @@
    ("w" :> 119) @@ ("-" :> 45) @@ ("x" :> 120)

\* a byte string from its characters
Str(chars) == [i \in 1 .. Len(chars) |-> Ascii[chars[i]]]

\* the arms b'p' ..= b'K' of the match: the piece!(..) toggled for byte b
piece_of_byte(b) ==
    CASE b = 112 -> Some(new_with(Black, Pawn))
      [] b = 110 -> Some(new_with(Black, Knight))
      [] b = 98  -> Some(new_with(Black, Bishop))
      [] b = 114 -> Some(new_with(Black, Rook))
      [] b = 113 -> Some(new_with(Black, Queen))
      [] b = 107 -> Some(new_with(Black, King))
      [] b = 80  -> Some(new_with(White, Pawn))
      [] b = 78  -> Some(new_with(White, Knight))
      [] b = 66  -> Some(new_with(White, Bishop))
      [] b = 82  -> Some(new_with(White, Rook))
      [] b = 81  -> Some(new_with(White, Queen))
      [] b = 75  -> Some(new_with(White, King))
      [] OTHER   -> None

\* the arm b'/'
is_slash(b) == b = 47

\* the arm n @ b'1'..=b'8' with a bug: b'9' is taken for a digit too
is_digit_Nine(b) == b >= 49 /\ b <= 57

\* the arm n @ b'1'..=b'8'
is_digit(b) == b >= 49 /\ b <= 56

\* let inc = n - b'0' with a bug: b'0' is not taken off
digit_inc_Raw(n) == n

\* let inc = n - b'0'
digit_inc(n) == n - 48

\* match file.cmp(&8) with a bug: a long rank is taken for a complete one
slash_outcome_Loose(f) ==
    IF f >= 8 THEN "next rank" ELSE "TooLittleRankInfo"

\* match file.cmp(&8) with a bug: a short rank is taken for a complete one
slash_outcome_Lax(f) ==
    IF f <= 8 THEN "next rank" ELSE "TooMuchRankInfo"

\* match file.cmp(&8): Equal, Less, Greater
slash_outcome(f) ==
    IF f = 8 THEN "next rank"
    ELSE IF f < 8 THEN "TooLittleRankInfo"
    ELSE "TooMuchRankInfo"

\* let raw = rank * 8 + file with a bug: ranks and files are exchanged
raw_of_Transposed(r, f) == U8(U8(f * 8) + r)

\* let raw = rank * 8 + file
raw_of(r, f) == U8(U8(r * 8) + f)

\* the test of the break with a bug: index 64 itself is let through
past_board_Late(raw) == raw > SquareCount

\* if raw >= 64 { break 'parsing; }
past_board(raw) == raw >= SquareCount

\* the byte it.next() returns, when there is one
HasByte == it <= Len(input)
Byte == input[it]

\* while let Some(&b) = it.next() fails: the loop ends, Ok(board)
ParseEnd ==
    /\ pc = "parsing" /\ ~HasByte
    /\ result' = "Ok" /\ exit' = "end" /\ pc' = "parsed"
    /\ UNCHANGED <<board, apiVars, iterVars, callVars, src, input, it, rank, file,
                   round, board1, fen1, fen2>>

\* if raw >= 64 { break 'parsing; }
ParseBreak ==
    /\ pc = "parsing" /\ HasByte
    /\ past_board(raw_of(rank, file))
    /\ it' = it + 1
    /\ result' = "Ok" /\ exit' = "break" /\ pc' = "parsed"
    /\ UNCHANGED <<board, apiVars, iterVars, callVars, src, input, rank, file,
                   round, board1, fen1, fen2>>

\* a piece letter: toggle_square(piece!(..), square); file += 1
ParsePiece ==
    /\ pc = "parsing" /\ HasByte
    /\ ~past_board(raw_of(rank, file))
    /\ piece_of_byte(Byte) # None
    /\ it' = it + 1
    /\ board' = toggle_square(board, piece_of_byte(Byte)[1], raw_of(rank, file))
    /\ file' = U8(file + 1)
    /\ UNCHANGED <<pc, apiVars, iterVars, callVars, src, input, rank, result,
                   exit, round, board1, fen1, fen2>>

\* b'/': the next rank, or one of the two rank errors
ParseSlash ==
    /\ pc = "parsing" /\ HasByte
    /\ ~past_board(raw_of(rank, file))
    /\ is_slash(Byte)
    /\ it' = it + 1
    /\ IF slash_outcome(file) = "next rank"
       THEN /\ rank' = U8(rank + 1)
            /\ file' = 0
            /\ UNCHANGED <<pc, result>>
       ELSE /\ result' = slash_outcome(file)
            /\ pc' = "failed"
            /\ UNCHANGED <<rank, file>>
    /\ UNCHANGED <<board, apiVars, iterVars, callVars, src, input, exit, round,
                   board1, fen1, fen2>>

\* b'1'..=b'8': file += inc
ParseDigit ==
    /\ pc = "parsing" /\ HasByte
    /\ ~past_board(raw_of(rank, file))
    /\ is_digit(Byte)
    /\ it' = it + 1
    /\ file' = U8(file + digit_inc(Byte))
    /\ UNCHANGED <<pc, board, apiVars, iterVars, callVars, src, input, rank, result,
                   exit, round, board1, fen1, fen2>>

\* _ => return Err(ParseError::UnknownChar)
ParseUnknown ==
    /\ pc = "parsing" /\ HasByte
    /\ ~past_board(raw_of(rank, file))
    /\ piece_of_byte(Byte) = None /\ ~is_slash(Byte) /\ ~is_digit(Byte)
    /\ it' = it + 1
    /\ result' = "UnknownChar" /\ pc' = "failed"
    /\ UNCHANGED <<board, apiVars, iterVars, callVars, src, input, rank, file,
                   exit, round, board1, fen1, fen2>>

-----------------------------------------------------------------------------
(* The codec: a text is parsed, the board serialized, and that text parsed  *)
(* and serialized again                                                     *)

\* lib.rs: START_FEN, the literal Board::start parses
START_FEN ==
    Str(<<"r","n","b","q","k","b","n","r","/","p","p","p","p","p","p","p","p","/",
          "8","/","8","/","8","/","8","/",
          "P","P","P","P","P","P","P","P","/","R","N","B","Q","K","B","N","R",
          " ","w"," ","K","Q","k","q"," ","-"," ","0"," ","1">>)

\* fen.rs, parse_round_trip: the piece-placement field of the start position
START_PLACEMENT ==
    Str(<<"r","n","b","q","k","b","n","r","/","p","p","p","p","p","p","p","p","/",
          "8","/","8","/","8","/","8","/",
          "P","P","P","P","P","P","P","P","/","R","N","B","Q","K","B","N","R">>)

\* one rank-group that never ends: the digits reach the largest value the
\* file counter can take, and one more byte follows
LongRank == Str(<<"7","8","8","8","8","8","8","8","8","8">>)

\* the blank rank-group
Blank == Str(<<"8">>)

\* the other rank-groups the inputs are made of: complete ones, short ones,
\* long ones and ones with a byte the parser does not know
OddGroups ==
    { Str(<<"r","n","b","q","k","b","n","r">>),
      Str(<<"R","N","B","Q","K","B","N","R">>),
      Str(<<"p","6","K">>),
      Str(<<"4","4">>),
      Str(<<"7">>),
      Str(<<"p","p","p","p","p","p","p","p","p">>),
      Str(<<"8","8">>),
      Str(<<"4","x","3">>),
      Str(<<"9">>) }


\* the sequences of n rank-groups of which at most m are not blank
RECURSIVE GroupSeqs(_, _)
GroupSeqs(n, m) ==
    IF n = 0 THEN {<<>>}
    ELSE {Append(gs, Blank) : gs \in GroupSeqs(n - 1, m)}
         \cup (IF m = 0 THEN {}
               ELSE {Append(gs, g) : gs \in GroupSeqs(n - 1, m - 1), g \in OddGroups})

\* rank-groups joined by '/'
RECURSIVE Join(_)
Join(gs) ==
    IF Len(gs) = 0 THEN <<>>
    ELSE IF Len(gs) = 1 THEN gs[1]
    ELSE gs[1] \o <<47>> \o Join(Tail(gs))

Inputs ==
    {START_FEN, START_PLACEMENT, LongRank} \cup UNION {{Join(gs) : gs \in GroupSeqs(n, MaxOdd)} : n \in 1 .. MaxGroups}

\* FEN::from_str(src).parse_board() begins
InitFen ==
    /\ pc = "parsing"
    /\ src \in Inputs
    /\ input = src /\ it = 1 /\ rank = 0 /\ file = 0
    /\ board = empty
    /\ result = "Running" /\ exit = "none" /\ round = 1
    /\ board1 = empty /\ fen1 = <<>> /\ fen2 = <<>>
    /\ ApiIdle /\ IterIdle /\ CallIdle

\* board.to_fen() on the board a parse returned
Serialize ==
    /\ pc = "parsed"
    /\ IF round = 1
       THEN /\ board1' = board
            /\ fen1' = to_fen(board).fen
            /\ pc' = "serialized"
            /\ UNCHANGED fen2
       ELSE /\ fen2' = to_fen(board).fen
            /\ pc' = "done"
            /\ UNCHANGED <<board1, fen1>>
    /\ UNCHANGED <<board, apiVars, iterVars, callVars, src, input, it, rank, file,
                   result, exit, round>>

\* FEN::from_string(fen1).parse_board() begins
Reparse ==
    /\ pc = "serialized"
    /\ pc' = "parsing"
    /\ input' = fen1 /\ it' = 1 /\ rank' = 0 /\ file' = 0
    /\ board' = empty
    /\ result' = "Running" /\ exit' = "none" /\ round' = 2
    /\ UNCHANGED <<apiVars, iterVars, callVars, src, board1, fen1, fen2>>

NextFen ==
    \/ ParseEnd \/ ParseBreak \/ ParsePiece \/ ParseSlash \/ ParseDigit
    \/ ParseUnknown \/ Serialize \/ Reparse

SpecFen == InitFen /\ [][NextFen]_vars

-----------------------------------------------------------------------------
(* Two parses: of a text that runs into the break, and of a text that      *)
(* agrees with it up to the byte read at the break                          *)

\* what the second text has from that byte on
Tails ==
    {<<>>, Str(<<"/">>), Str(<<"x">>), Str(<<" ", "w">>), Str(<<"p", "/", "9">>)}

\* FEN::from_string(..).parse_board() begins for the second text
Retail(tail) ==
    /\ pc = "parsed" /\ round = 1 /\ exit = "break"
    /\ board1' = board
    /\ input' = SubSeq(input, 1, it - 2) \o tail
    /\ pc' = "parsing"
    /\ it' = 1 /\ rank' = 0 /\ file' = 0
    /\ board' = empty
    /\ result' = "Running" /\ exit' = "none" /\ round' = 2
    /\ UNCHANGED <<apiVars, iterVars, callVars, src, fen1, fen2>>

NextTail ==
    \/ ParseEnd \/ ParseBreak \/ ParsePiece \/ ParseSlash \/ ParseDigit
    \/ ParseUnknown \/ \E tail \in Tails : Retail(tail)

SpecTail == InitFen /\ [][NextTail]_vars

-----------------------------------------------------------------------------
(* Single calls of the constructors Square::new and Piece::new_with *)

\* the u8 arguments tried: 0 up to MaxCoord, and u8::MAX
Coords == (0 .. MaxCoord) \cup {255}

SquareCalls == {[fn |-> "Square::new", args |-> <<r, f>>] : r, f \in Coords}
PieceCalls ==
    {[fn |-> "Piece::new_with", args |-> <<c, k>>] : c \in Colors, k \in Kinds}

\* one call is about to be made
InitCall ==
    /\ pc = "calling"
    /\ call \in {Some(c) : c \in SquareCalls \cup PieceCalls}
    /\ ret = None
    /\ board = empty
    /\ ApiIdle /\ IterIdle /\ FenIdle

\* Square::new(rank, file)
CallSquareNew ==
    /\ pc = "calling" /\ call[1].fn = "Square::new"
    /\ ret' = Some(Square_new(call[1].args[1], call[1].args[2]))
    /\ pc' = "returned"
    /\ UNCHANGED <<board, call, apiVars, iterVars, fenVars>>

\* let p = Piece::new_with(color, kind); p.color(); p.kind(); p.as_char()
CallPieceNewWith ==
    /\ pc = "calling" /\ call[1].fn = "Piece::new_with"
    /\ LET p == new_with(call[1].args[1], call[1].args[2])
       IN  ret' = Some([piece |-> p, color |-> color(p), kind |-> kind(p),
                        as_char |-> as_char(p)])
    /\ pc' = "returned"
    /\ UNCHANGED <<board, call, apiVars, iterVars, fenVars>>

NextCall == CallSquareNew \/ CallPieceNewWith

SpecCall == InitCall /\ [][NextCall]_vars

-----------------------------------------------------------------------------
(* Properties of the Board API *)

\* invariant 1 of the data model: a square is in at most one kind-BitBoard
\* and at most one color-BitBoard
Invariant1(b) ==
    \A s \in Squares :
        /\ Cardinality(KindsAt(b, s)) <= 1
        /\ Cardinality(ColorsAt(b, s)) <= 1

\* invariant 2 of the data model: the kind-BitBoards and the color-BitBoards
\* have the same union
Invariant2(b) ==
    UNION {pieces(b, k) : k \in Kinds} = UNION {colors(b, c) : c \in Colors}

PieceIffOccupied(b) ==
    \A s \in Squares : (piece_on(b, s) = None) <=> ~is_on(occupied(b), s)

\* C3 as stated: on every board reachable from Board::empty() by any
\* toggle_square calls, piece_on(s) is None iff occupied().is_on(s) is false.
C3_AnySequence == pc = "api" => PieceIffOccupied(board)

\* C3 amended: on every board reachable from Board::empty() by toggle_square
\* calls that each hit a square that is in no BitBoard or holds exactly the
\* toggled piece, piece_on(s) is None iff occupied().is_on(s) is false.
C3_ExactSequence == (pc = "api" /\ exactOK) => PieceIffOccupied(board)

C3_Witness ==
    /\ pc = "api" /\ exactOK /\ nToggles = MaxToggles
    /\ \E s \in Squares : piece_on(board, s) # None /\ is_on(occupied(board), s)
    /\ \E s \in TSquares : piece_on(board, s) = None /\ before # empty

\* C4 as stated: after toggle_square calls that each respect the documented
\* contract (the square is not occupied by a different kind), every square is
\* in at most one kind-BitBoard and one color-BitBoard, and the unions agree.
C4_DocContract == (pc = "api" /\ docOK) => (Invariant1(board) /\ Invariant2(board))

\* C4 amended: after toggle_square calls that each hit a square that is in no
\* BitBoard or holds exactly the toggled piece (same kind and same color),
\* every square is in at most one kind-BitBoard and at most one
\* color-BitBoard, and the unions agree.
C4_ExactContract == (pc = "api" /\ exactOK) => (Invariant1(board) /\ Invariant2(board))

C4_Witness ==
    /\ pc = "api" /\ exactOK /\ nToggles >= 2
    /\ Cardinality(occupied(board)) = 2

\* C9: toggle_square(p, s) applied twice in immediate succession leaves all
\* 6 kind-BitBoards and both color-BitBoards as they were before the two calls.
C9_ToggleTwice ==
    (pc = "api" /\ lastOp # None /\ prevOp = lastOp) => board = before2

C9_Witness ==
    /\ pc = "api" /\ lastOp # None /\ prevOp = lastOp
    /\ before2 # empty /\ before # before2

\* C10: either square iterator yields piece_on(square 0), piece_on(square 1),
\* ..., piece_on(square 63) in that order and then None; len() is 64 before
\* the first item and drops by exactly 1 per item, reaching 0 after the 64th.
C10_IterSequence ==
    (pc = "api" /\ itKind # "none") =>
        /\ IterLen = 64 - Len(yielded)
        /\ (nNext <= 64 => Len(yielded) = nNext)
        /\ (nNext > 0 /\ nNext <= 64 =>
               /\ lastRet = Some(yielded[nNext])
               /\ yielded[nNext] = piece_on(board, nNext - 1))
        /\ (nNext > 64 =>
               /\ lastRet = None /\ IterLen = 0
               /\ yielded = [i \in 1 .. 64 |-> piece_on(board, i - 1)])

C10_Witness ==
    /\ pc = "api" /\ itKind = "IntoIter" /\ nNext = SquareCount + 1
    /\ yielded[1] # None /\ yielded[SquareCount] # None /\ yielded[2] = None

-----------------------------------------------------------------------------
(* Properties of the codec *)

Letters == {Ascii[c] : c \in {"p","n","b","r","q","k","P","N","B","R","Q","K"}}
Digits == {Ascii[c] : c \in {"1","2","3","4","5","6","7","8"}}
SlashByte == Ascii["/"]

\* the index of the first byte of t that is in set S, 0 when there is none
FirstIn(t, S) ==
    IF \E i \in 1 .. Len(t) : t[i] \in S
    THEN CHOOSE i \in 1 .. Len(t) : t[i] \in S /\ \A j \in 1 .. (i - 1) : t[j] \notin S
    ELSE 0

\* the rank-groups of a text: its pieces between the '/' bytes
RECURSIVE Split(_)
Split(t) ==
    LET i == FirstIn(t, {SlashByte})
    IN  IF i = 0 THEN <<t>>
        ELSE <<SubSeq(t, 1, i - 1)>> \o Split(SubSeq(t, i + 1, Len(t)))

\* a rank-group proper: letters and digits 1-8 only
IsGroup(g) == \A i \in 1 .. Len(g) : g[i] \in Letters \cup Digits

\* the files a rank-group accounts for: 1 per letter, its value per digit
RECURSIVE Files(_)
Files(g) ==
    IF Len(g) = 0 THEN 0
    ELSE (IF g[1] \in Digits THEN g[1] - Ascii["0"] ELSE 1) + Files(Tail(g))

\* a well-formed piece-placement field
WellFormed(t) ==
    LET gs == Split(t)
    IN  /\ Len(gs) = 8
        /\ \A k \in 1 .. 8 : IsGroup(gs[k]) /\ Files(gs[k]) = 8

NoAdjacentDigits(t) ==
    \A i \in 1 .. (Len(t) - 1) : ~(t[i] \in Digits /\ t[i + 1] \in Digits)

\* group k of gs is terminated by '/', every group before it is a complete
\* rank-group, and it is a rank-group itself
FirstMalformed(gs, k) ==
    /\ k < Len(gs)
    /\ \A j \in 1 .. (k - 1) : IsGroup(gs[j]) /\ Files(gs[j]) = 8
    /\ IsGroup(gs[k])
    /\ Files(gs[k]) # 8

\* the first parse_board has just returned: result holds what it returned
Returned1 == round = 1 /\ pc \in {"parsed", "failed"}
Failed1 == round = 1 /\ pc = "failed"
\* to_fen of the first board has just returned
Serialized1 == round = 1 /\ pc = "serialized"
\* the second parse_board has just returned
Returned2 == round = 2 /\ pc \in {"parsed", "failed"}

\* C1 as stated: for every well-formed piece-placement field fen,
\* parse_board(fen) succeeds and to_fen of the board is byte-for-byte fen.
C1_TextRoundTrip ==
    ((Failed1 \/ Serialized1) /\ WellFormed(src)) => (~Failed1 /\ fen1 = src)

\* C1 amended: for every well-formed piece-placement field fen in which no
\* two digits are adjacent, parse_board(fen) succeeds and to_fen of the
\* board is byte-for-byte fen.
C1_CanonicalRoundTrip ==
    ((Failed1 \/ Serialized1) /\ WellFormed(src) /\ NoAdjacentDigits(src)) =>
        (~Failed1 /\ fen1 = src)

C1_Witness ==
    /\ WellFormed(src) /\ NoAdjacentDigits(src) /\ Serialized1
    /\ \E i \in 1 .. Len(src) : src[i] \in Letters /\ src[i] < 97
    /\ \E i \in 1 .. Len(src) : src[i] \in Digits /\ src[i] # Ascii["8"]

\* C2: for every board b that parse_board returns on a well-formed field,
\* parse_board(to_fen(b)) succeeds and returns a board whose 6 kind-BitBoards
\* and 2 color-BitBoards equal those of b.
C2_BoardRoundTrip ==
    (Returned2 /\ WellFormed(src)) =>
        /\ result = "Ok"
        /\ \A k \in Kinds : pieces(board, k) = pieces(board1, k)
        /\ \A c \in Colors : colors(board, c) = colors(board1, c)

C2_Witness ==
    /\ Returned2 /\ WellFormed(src)
    /\ whites(board1) # EMPTY /\ blacks(board1) # EMPTY

\* C5: Board::start() returns without failing although its literal carries
\* the trailing fields " w KQkq - 0 1"; its to_fen() is exactly
\* "rnbqkbnr/pppppppp/8/8/8/8/PPPPPPPP/RNBQKBNR"; parsing that string back
\* yields a board with the same serialized form.
C5_Start ==
    src = START_FEN =>
        /\ pc # "failed"
        /\ (pc = "serialized" \/ round = 2 => fen1 = START_PLACEMENT)
        /\ (pc = "done" => fen2 = fen1)

C5_Witness == src = START_FEN /\ pc = "done" /\ Len(fen2) > 0

\* C6: for any input whose first malformed rank-group is a rank-group
\* terminated by '/' that accounts for more than 8 files, parse_board
\* returns Err(TooMuchRankInfo).
C6_TooMuch ==
    (Returned1 /\ \E k \in 1 .. Len(Split(src)) :
                      FirstMalformed(Split(src), k) /\ Files(Split(src)[k]) > 8)
        => result = "TooMuchRankInfo"

\* the '/' arm is reached with exactly 8 files consumed
SlashRead == pc = "parsing" /\ HasByte /\ is_slash(Byte) /\ file = 8

\* C7 as stated: for any input whose first malformed rank-group is a
\* rank-group terminated by '/' that accounts for fewer than 8 files,
\* parse_board returns Err(TooLittleRankInfo); and when '/' is read with
\* exactly 8 files consumed, rank increases by 1 and file resets to 0 with no
\* error.
C7_TooLittle ==
    [][ /\ (Returned1' /\ \E k \in 1 .. Len(Split(src)) :
                FirstMalformed(Split(src), k) /\ Files(Split(src)[k]) < 8)
            => result' = "TooLittleRankInfo"
        /\ SlashRead => (rank' = rank + 1 /\ file' = 0 /\ result' = "Running")
      ]_vars

\* C7 amended: for any input whose first malformed rank-group is one of the
\* first 8 rank-groups, is terminated by '/' and accounts for fewer than 8
\* files, parse_board returns Err(TooLittleRankInfo); and when '/' is read
\* with exactly 8 files consumed and rank below 7 (rank*8+file below 64),
\* rank increases by 1 and file resets to 0 with no error.
C7_TooLittleOnBoard ==
    [][ /\ (Returned1' /\ \E k \in 1 .. 8 :
                FirstMalformed(Split(src), k) /\ Files(Split(src)[k]) < 8)
            => result' = "TooLittleRankInfo"
        /\ (SlashRead /\ rank < 7) =>
               (rank' = rank + 1 /\ file' = 0 /\ result' = "Running")
      ]_vars

C7_Witness ==
    /\ round = 1 /\ pc = "failed" /\ result = "TooLittleRankInfo"
    /\ rank = 7 /\ file > 0

\* the index of the first byte outside the accepted alphabet, 0 if none
FirstUnknown(t) == FirstIn(t, (0 .. 127) \ (Letters \cup Digits \cup {SlashByte}))

\* no '/' before byte i of t closes a rank-group that is not complete
NoRankErrorBefore(t, i) ==
    LET gs == Split(SubSeq(t, 1, i - 1))
    IN  \A k \in 1 .. (Len(gs) - 1) : Files(gs[k]) = 8

\* the squares accounted for before byte i of t
SquaresBefore(t, i) ==
    LET gs == Split(SubSeq(t, 1, i - 1))
    IN  8 * (Len(gs) - 1) + Files(gs[Len(gs)])

\* C8 as stated: for any input that contains a byte outside the accepted
\* alphabet and has no rank error before that byte, parse_board returns
\* Err(UnknownChar).
C8_Unknown ==
    (Returned1 /\ FirstUnknown(src) # 0 /\ NoRankErrorBefore(src, FirstUnknown(src)))
        => result = "UnknownChar"

\* C8 amended: for any input that contains a byte outside the accepted
\* alphabet, has no rank error before the first such byte and accounts for
\* fewer than 64 squares before it, parse_board returns Err(UnknownChar).
C8_UnknownOnBoard ==
    (/\ Returned1 /\ FirstUnknown(src) # 0
     /\ NoRankErrorBefore(src, FirstUnknown(src))
     /\ SquaresBefore(src, FirstUnknown(src)) < 64)
        => result = "UnknownChar"

C8_Witness ==
    /\ round = 1 /\ pc = "failed" /\ result = "UnknownChar"
    /\ rank = 7 /\ file > 0

-----------------------------------------------------------------------------
(* Constructors *)

SquareNewReturned == pc = "returned" /\ call[1].fn = "Square::new"
PieceNewWithReturned == pc = "returned" /\ call[1].fn = "Piece::new_with"

\* C11: Square::new(rank, file) returns the square with raw index
\* (rank-1)*8+(file-1) for every rank and file in 1..=8, that mapping is one
\* to one and onto 0..63, and the call fails fatally whenever rank or file is
\* outside 1..=8.
C11_SquareNew ==
    SquareNewReturned =>
        LET r == call[1].args[1]
            f == call[1].args[2]
            sq == ret[1]
        IN  IF r \in 1 .. 8 /\ f \in 1 .. 8
            THEN /\ ~sq.panic
                 /\ sq.val = Some((r - 1) * 8 + (f - 1))
                 /\ \A r2, f2 \in 1 .. 8 :
                        Square_new(r2, f2).val = sq.val => <<r2, f2>> = <<r, f>>
                 /\ \A s \in 0 .. 63 :
                        \E r2, f2 \in 1 .. 8 : Square_new(r2, f2).val = Some(s)
            ELSE sq.panic

\* Square::new(9, 9), called on its own, has failed fatally
C11_Witness ==
    /\ SquareNewReturned
    /\ call[1].args = <<9, 9>>
    /\ ret[1].panic

\* the letter of each kind, lower case and upper case
KindLetter ==
    (Pawn :> "p") @@ (Knight :> "n") @@ (Bishop :> "b") @@
    (Rook :> "r") @@ (Queen :> "q") @@ (King :> "k")
KindLetterUpper ==
    (Pawn :> "P") @@ (Knight :> "N") @@ (Bishop :> "B") @@
    (Rook :> "R") @@ (Queen :> "Q") @@ (King :> "K")

\* C12: for each of the 12 (color, kind) pairs, Piece::new_with(color, kind)
\* unpacks to the same color() and kind(), as_char() is the lower-case kind
\* letter, upper-cased for White, and parse_board maps that letter back to
\* the same piece.
C12_PieceLetter ==
    PieceNewWithReturned =>
        LET c == call[1].args[1]
            k == call[1].args[2]
            p == ret[1]
        IN  /\ p.color = c
            /\ p.kind = k
            /\ p.as_char = Ascii[IF c = White THEN KindLetterUpper[k]
                                              ELSE KindLetter[k]]
            /\ piece_of_byte(p.as_char) = Some(p.piece)

\* the white king has been built and prints as 'K'
C12_Witness ==
    /\ PieceNewWithReturned
    /\ call[1].args = <<White, King>>
    /\ ret[1].as_char = Ascii["K"]

-----------------------------------------------------------------------------
(* to_fen of any board *)

ToFenReturned == pc = "returned" /\ call[1].fn = "Board::to_fen"

\* C13: for any board reachable from Board::empty() by any sequence of
\* toggle_square calls, to_fen returns without failing and its output is
\* exactly 8 rank-groups separated by exactly 7 '/', each group accounting for
\* exactly 8 squares, with every digit in 1..8 and no two digits adjacent.
C13_ToFenShape ==
    ToFenReturned =>
        LET t == ret[1].fen
        IN  /\ ~ret[1].panic
            /\ Cardinality({i \in 1 .. Len(t) : t[i] = SlashByte}) = 7
            /\ WellFormed(t)
            /\ NoAdjacentDigits(t)

\* to_fen has returned for a board that breaks invariants 1 and 2
C13_Witness ==
    /\ ToFenReturned
    /\ ~Invariant1(board) /\ ~Invariant2(board)
    /\ ~ret[1].panic

-----------------------------------------------------------------------------
(* The break of the parsing loop *)

\* a byte is read while the target index is 64 or more
ReadPastBoard == pc = "parsing" /\ HasByte /\ raw_of(rank, file) >= 64

\* C14: as soon as a byte is read while the target index rank*8+file is 64
\* or more, parse_board stops and returns Ok with the board built so far,
\* that byte toggling nothing and being the last one read; and a text that
\* agrees with the first up to that byte yields Ok with the same board
\* whatever it holds from there on.
C14_BreakStops ==
    [][ /\ ReadPastBoard =>
            /\ pc' = "parsed" /\ result' = "Ok"
            /\ board' = board /\ it' = it + 1
        /\ Returned2' => (result' = "Ok" /\ board' = board1')
      ]_vars

\* the second text differs from the first after the point of the break, and
\* its parse has returned the same board, which holds pieces
C14_Witness ==
    /\ Returned2 /\ result = "Ok"
    /\ input # src /\ Len(input) > Len(src)
    /\ board = board1 /\ board # empty

-----------------------------------------------------------------------------
(* Where the rank-groups land *)

\* the files of a rank-group, one after the other: Some(letter) or None
RECURSIVE Cells(_)
Cells(g) ==
    IF Len(g) = 0 THEN <<>>
    ELSE (IF g[1] \in Digits THEN [n \in 1 .. (g[1] - Ascii["0"]) |-> None]
                              ELSE <<Some(g[1])>>) \o Cells(Tail(g))

\* the letter FEN gives a piece
LetterOf(p) ==
    Ascii[IF color(p) = White THEN KindLetterUpper[kind(p)] ELSE KindLetter[kind(p)]]

\* what stands on a file of a rank-group: Some(piece) or None
PieceOfCell(cell) ==
    IF cell = None THEN None
    ELSE Some(CHOOSE p \in Pieces : LetterOf(p) = cell[1])

\* C15: for a well-formed piece-placement field, the i-th rank-group (i in
\* 0..7) populates exactly the squares 8*i .. 8*i+7, its j-th file at index
\* 8*i+j; and the first item iterated from the starting board is the black
\* rook.
C15_GroupSquares ==
    Returned1 =>
        /\ WellFormed(src) =>
              /\ result = "Ok"
              /\ \A i \in 0 .. 7 : \A j \in 0 .. 7 :
                    piece_on(board, 8 * i + j)
                        = PieceOfCell(Cells(Split(src)[i + 1])[j + 1])
        /\ src = START_FEN =>
              /\ result = "Ok"
              /\ Iter_next(board, 0).ret = Some(Some(new_with(Black, Rook)))

\* a well-formed text with the group "p6K" fourth has been parsed: the white
\* king stands on index 8*3+7
C15_Witness ==
    /\ Returned1 /\ result = "Ok"
    /\ WellFormed(src)
    /\ Split(src)[4] = Str(<<"p", "6", "K">>)
    /\ piece_on(board, 31) = Some(new_with(White, King))

-----------------------------------------------------------------------------
(* toggle_square bit by bit; piece_on against kind_on and color_of *)

\* the bits in which two BitBoards differ
Changed(a, b) == (a \ b) \cup (b \ a)

\* C16: toggle_square(piece, square) changes exactly two bits of the board:
\* bit `square` of the kind-BitBoard of piece.kind() and bit `square` of the
\* color-BitBoard of piece.color(); every other BitBoard and every other bit
\* of these two is unchanged.
C16_TwoBits ==
    lastOp # None =>
        LET piece == lastOp[1][1]
            square == lastOp[1][2]
        IN  /\ \A k \in Kinds :
                  Changed(pieces(before, k), pieces(board, k))
                      = IF k = kind(piece) THEN {square} ELSE {}
            /\ \A c \in Colors :
                  Changed(colors(before, c), colors(board, c))
                      = IF c = color(piece) THEN {square} ELSE {}

\* a white knight has been toggled on the square of a black pawn: the pawn
\* bit and the black bit are still set
C16_Witness ==
    /\ lastOp = Some(<<new_with(White, Knight), 0>>)
    /\ is_on(pieces(before, Pawn), 0) /\ is_on(blacks(before), 0)
    /\ is_on(pieces(board, Pawn), 0) /\ is_on(blacks(board), 0)
    /\ is_on(pieces(board, Knight), 0) /\ is_on(whites(board), 0)

\* C17: on every board that satisfies invariants 1 and 2 and for every
\* square s, piece_on(s) is Some(piece) with piece.kind() = kind_on(s) and
\* piece.color() = color_of(s) when s is occupied, and None when it is not.
C17_PieceOnAgrees ==
    (pc = "api" /\ itKind = "none" /\ Invariant1(board) /\ Invariant2(board)) =>
        \A s \in Squares :
            LET p == piece_on(board, s)
            IN  IF is_on(occupied(board), s)
                THEN /\ p # None
                     /\ kind_on(board, s) = Some(kind(p[1]))
                     /\ color_of(board, s) = Some(color(p[1]))
                ELSE p = None

\* a board within the invariants holds a black king and a white pawn
C17_Witness ==
    /\ pc = "api" /\ itKind = "none"
    /\ Invariant1(board) /\ Invariant2(board)
    /\ piece_on(board, 63) = Some(new_with(Black, King))
    /\ piece_on(board, 0) = Some(new_with(White, Pawn))

-----------------------------------------------------------------------------
(* parse_board on any text *)

\* every bit set in some BitBoard of b
AllBits(b) ==
    UNION {pieces(b, k) : k \in Kinds} \cup UNION {colors(b, c) : c \in Colors}

\* C18: every board parse_board returns as Ok, for a well-formed text or not,
\* satisfies invariants 1 and 2; and the target index rank*8+file never
\* decreases and has strictly increased whenever the board is toggled again,
\* every square toggled so far lying below it.
C18_OkBoardInvariants ==
    [][ /\ pc' = "parsed" => (Invariant1(board') /\ Invariant2(board'))
        /\ (pc = "parsing" /\ pc' = "parsing") =>
              /\ rank' * 8 + file' >= rank * 8 + file
              /\ board' # board =>
                    /\ rank' * 8 + file' > rank * 8 + file
                    /\ \A s \in AllBits(board) : s < rank * 8 + file
                    /\ AllBits(board') = AllBits(board) \cup {rank * 8 + file}
      ]_vars

\* a text that is not well-formed has been parsed to an Ok board with pieces
C18_Witness ==
    /\ Returned1 /\ result = "Ok"
    /\ ~WellFormed(src)
    /\ board # empty
    /\ Invariant1(board) /\ Invariant2(board)

ParseErrors == {"TooLittleRankInfo", "TooMuchRankInfo", "UnknownChar"}

\* Square::from_raw(raw) is about to be called: a byte was read and the
\* break was not taken
FromRawCalled == pc = "parsing" /\ HasByte /\ ~past_board(raw_of(rank, file))

\* C19: parse_board ends with Ok or one of the three ParseError values and
\* never fails fatally: every step of the loop reads one byte or leaves the
\* loop, Square::from_raw is only called with an index below 64, rank never
\* exceeds 7, file never exceeds 71 and rank*8+file stays within 8 bits.
C19_NoFatalFailure ==
    [][ /\ rank' <= 7 /\ file' <= 71 /\ rank' * 8 + file' <= 255
        /\ FromRawCalled' =>
              (rank' * 8 + file' < 64 /\ ~from_raw(raw_of(rank', file')).panic)
        /\ pc = "parsing" =>
              /\ it <= Len(input) + 1
              /\ (pc' = "parsing" /\ it' = it + 1) \/ pc' \in {"parsed", "failed"}
        /\ pc' = "parsed" => result' = "Ok"
        /\ pc' = "failed" => result' \in ParseErrors
      ]_vars

\* the file counter has reached 71 and the next byte ended the parse with Ok
C19_Witness ==
    /\ Returned1 /\ result = "Ok" /\ exit = "break"
    /\ src = LongRank
    /\ rank = 0 /\ file = 71

====
